---- MODULE Spec2Model ----
(***************************************************************************)
(* LockMe (lockme_fixed_gui.py): pad / unpad, encrypt_file, decrypt_file   *)
(* and the two button callbacks select_file_encrypt / select_file_decrypt, *)
(* run against a file system that maps paths to byte strings.              *)
(*                                                                         *)
(* Bytes are integers 0..255, byte strings are sequences of bytes, paths   *)
(* are sequences of one-character strings.                                 *)
(***************************************************************************)
EXTENDS Integers, Sequences

\* ------------------------------------------------------------------ bounds
MaxLen == 17         \* longest plaintext in the initial file system
MaxSteps == 2        \* button presses per behaviour
MaxEnvLen == 33      \* longest arbitrary envelope in the initial file system

\* ------------------------------------------------------- program constants
BLOCK_SIZE == 16
KEY_SIZE == 32
IV_SIZE == 16

KEY_BIN == <<"k", "e", "y", ".", "b", "i", "n">>
ENC == <<".", "e", "n", "c">>
DEC == <<".", "d", "e", "c">>

\* ------------------------------------------------------------ byte strings
\* a function over 1..n written as a tuple, so that its bytes are computed once
Bytes(f) == f \o <<>>

Rep(n, b) == Bytes([i \in 1..n |-> b])

\* Python slice data[:n] for 0 <= n
Take(s, n) == SubSeq(s, 1, IF n < Len(s) THEN n ELSE Len(s))
\* Python slice data[n:] for 0 <= n
Drop(s, n) == SubSeq(s, n + 1, Len(s))

\* Python slice data[:-n] for n > 0 (empty when n >= len), and data[:-0] = data[:0]
DropLast(s, n) ==
  IF n = 0 THEN <<>>
  ELSE IF n >= Len(s) THEN <<>>
  ELSE SubSeq(s, 1, Len(s) - n)

\* ----------------------------------------------------------- pad and unpad
\* variant of pad: nothing is appended to data that is whole blocks already
padMissingFullBlock(data) ==
  LET padding == (BLOCK_SIZE - (Len(data) % BLOCK_SIZE)) % BLOCK_SIZE
  IN  data \o Rep(padding, padding)

\* variant of pad: the padding bytes are zero
padWithZeros(data) ==
  LET padding == BLOCK_SIZE - (Len(data) % BLOCK_SIZE)
  IN  data \o Rep(padding, 0)

pad(data) ==
  LET padding == BLOCK_SIZE - (Len(data) % BLOCK_SIZE)
  IN  data \o Rep(padding, padding)

\* unpad is only applied to a non-empty buffer; data[-1] of b"" is an IndexError,
\* raised in decrypt_file below.
unpad(data) ==
  LET padding == data[Len(data)]
  IN  DropLast(data, padding)

\* ------------------------------------------------- AES in CBC mode (library)
\* Crypto.Cipher.AES is used through AES.new / encrypt / decrypt only.  What the
\* program relies on is kept: a block cipher is a key-dependent bijection on
\* 16-byte blocks, AES.new accepts keys of 16, 24 or 32 bytes and IVs of 16
\* bytes and raises ValueError otherwise, and CBC encrypt / decrypt raise
\* ValueError on data that is not a whole number of blocks.
AES_KEY_SIZES == {16, 24, 32}

\* bitwise exclusive or of two bytes, four bits at a time
RECURSIVE XorBits(_, _)
XorBits(a, b) ==
  IF a = 0 THEN b
  ELSE IF b = 0 THEN a
  ELSE ((a + b) % 2) + 2 * XorBits(a \div 2, b \div 2)

XorNibble == [a \in 0..15 |-> [b \in 0..15 |-> XorBits(a, b)]]

Xor(a, b) == XorNibble[a % 16][b % 16] + 16 * XorNibble[a \div 16][b \div 16]

XorBlock(x, y) == Bytes([i \in 1..BLOCK_SIZE |-> Xor(x[i], y[i])])

RECURSIVE SumBytes(_, _)
SumBytes(key, idx) ==
  IF idx > Len(key) THEN 0
  ELSE key[idx] + SumBytes(key, idx + BLOCK_SIZE)

\* key schedule: every key byte takes part
RoundKey(key) == Bytes([i \in 1..BLOCK_SIZE |-> SumBytes(key, i) % 256])

\* the block transform: rotate the block by one byte and add the round key
EncryptBlock(key, b) ==
  LET rk == RoundKey(key)
  IN  Bytes([i \in 1..BLOCK_SIZE |-> (b[(i % BLOCK_SIZE) + 1] + rk[i]) % 256])

DecryptBlock(key, c) ==
  LET rk == RoundKey(key)
  IN  Bytes([i \in 1..BLOCK_SIZE |->
               LET j == ((i + BLOCK_SIZE - 2) % BLOCK_SIZE) + 1
               IN  (c[j] + 256 - rk[j]) % 256])

\* cipher.encrypt(data) of a CBC cipher started at iv; Len(data) a multiple of 16
RECURSIVE CBCEncrypt(_, _, _)
CBCEncrypt(key, prev, data) ==
  IF Len(data) < BLOCK_SIZE THEN <<>>
  ELSE LET c == EncryptBlock(key, XorBlock(Take(data, BLOCK_SIZE), prev))
       IN  c \o CBCEncrypt(key, c, Drop(data, BLOCK_SIZE))

\* cipher.decrypt(ciphertext) of a CBC cipher started at iv; Len a multiple of 16
RECURSIVE CBCDecrypt(_, _, _)
CBCDecrypt(key, prev, ct) ==
  IF Len(ct) < BLOCK_SIZE THEN <<>>
  ELSE LET c == Take(ct, BLOCK_SIZE)
       IN  XorBlock(DecryptBlock(key, c), prev) \o CBCDecrypt(key, c, Drop(ct, BLOCK_SIZE))

\* AES.new(key, AES.MODE_CBC[, iv]) raises ValueError
AESNewFails(key, iv) == Len(key) \notin AES_KEY_SIZES \/ Len(iv) # BLOCK_SIZE

\* variant of CBCDataFails: a trailing partial block is ignored
CBCDataIgnoresTail(data) == FALSE

\* cipher.encrypt(data) / cipher.decrypt(data) raises ValueError
CBCDataFails(data) == Len(data) % BLOCK_SIZE # 0

\* ------------------------------------------------------------------- paths
\* str.replace(old, new): every non-overlapping occurrence, left to right
RECURSIVE Replace(_, _, _)
Replace(s, old, new) ==
  IF Len(s) < Len(old) THEN s
  ELSE IF SubSeq(s, 1, Len(old)) = old
       THEN new \o Replace(Drop(s, Len(old)), old, new)
       ELSE <<Head(s)>> \o Replace(Tail(s), old, new)

EncryptOutPath(filepath) == filepath \o ENC

DecryptOutPath(filepath) == Replace(filepath, ENC, DEC)

\* ------------------------------------------------------------------- state
VARIABLES
  fs,       \* the file system: existing path -> contents
  denied,   \* paths whose open() raises PermissionError
  made,     \* envelope path -> the plaintext and key encrypt_file made it from
  last,     \* the last callback: its inputs, locals, exception and notifications
  encrypted,\* an Encrypt action has ended in success
  steps     \* callbacks run so far

vars == <<fs, denied, made, last, encrypted, steps>>

Write(f, path, contents) ==
  [q \in (DOMAIN f) \cup {path} |-> IF q = path THEN contents ELSE f[q]]

Forget(m, path) == [q \in (DOMAIN m) \ {path} |-> m[q]]

Idle ==
  [op |-> "none", path |-> <<>>, key |-> <<>>, exc |-> "none", stage |-> "none",
   escaped |-> FALSE, notes |-> <<>>, data |-> <<>>, buf |-> <<>>, out |-> <<>>,
   wrote |-> FALSE, known |-> FALSE, plain |-> <<>>, madeKey |-> <<>>]

\* ------------------------------------------------------------ encrypt_file
\* variant of Ciphertext: the IV is not written in front
CiphertextWithoutIV(key, iv, padded) == CBCEncrypt(key, iv, padded)

\* cipher.iv + cipher.encrypt(data)
Ciphertext(key, iv, padded) == iv \o CBCEncrypt(key, iv, padded)

\* The result of encrypt_file(filepath, key) on file system f with the cipher's
\* random IV iv: the exception raised (or "none"), where, the file system left
\* behind and the locals.
encrypt_file(f, filepath, key, iv) ==
  LET r0 == [exc |-> "none", stage |-> "done", fs |-> f, data |-> <<>>,
             buf |-> <<>>, out |-> <<>>, wrote |-> FALSE]
  IN
  IF filepath \notin DOMAIN f
  THEN [r0 EXCEPT !.exc = "FileNotFoundError", !.stage = "open_src"]
  ELSE IF filepath \in denied
  THEN [r0 EXCEPT !.exc = "PermissionError", !.stage = "open_src"]
  ELSE
    LET data == f[filepath]
        padded == pad(data)
    IN
    IF AESNewFails(key, iv)
    THEN [r0 EXCEPT !.exc = "ValueError", !.stage = "new_cipher",
                    !.data = data, !.buf = padded]
    ELSE IF CBCDataFails(padded)
    THEN [r0 EXCEPT !.exc = "ValueError", !.stage = "cipher",
                    !.data = data, !.buf = padded]
    ELSE
      LET ciphertext == Ciphertext(key, iv, padded)
          out_path == EncryptOutPath(filepath)
      IN
      IF out_path \in denied
      THEN [r0 EXCEPT !.exc = "PermissionError", !.stage = "open_out",
                      !.data = data, !.buf = padded, !.out = out_path]
      ELSE [r0 EXCEPT !.fs = Write(f, out_path, ciphertext), !.data = data,
                      !.buf = padded, !.out = out_path, !.wrote = TRUE]

\* ------------------------------------------------------------ decrypt_file
cipher_decrypt(key, iv, ciphertext) == CBCDecrypt(key, iv, ciphertext)

decrypt_file(f, filepath, key) ==
  LET r0 == [exc |-> "none", stage |-> "done", fs |-> f, data |-> <<>>,
             buf |-> <<>>, out |-> <<>>, wrote |-> FALSE]
  IN
  IF filepath \notin DOMAIN f
  THEN [r0 EXCEPT !.exc = "FileNotFoundError", !.stage = "open_src"]
  ELSE IF filepath \in denied
  THEN [r0 EXCEPT !.exc = "PermissionError", !.stage = "open_src"]
  ELSE
    LET envelope == f[filepath]
        iv == Take(envelope, IV_SIZE)
        ciphertext == Drop(envelope, IV_SIZE)
        r1 == [r0 EXCEPT !.data = envelope]
    IN
    IF AESNewFails(key, iv)
    THEN [r1 EXCEPT !.exc = "ValueError", !.stage = "new_cipher"]
    ELSE IF CBCDataFails(ciphertext)
    THEN [r1 EXCEPT !.exc = "ValueError", !.stage = "cipher"]
    ELSE
      LET buffer == cipher_decrypt(key, iv, ciphertext)
          r2 == [r1 EXCEPT !.buf = buffer]
      IN
      IF Len(buffer) = 0
      THEN [r2 EXCEPT !.exc = "IndexError", !.stage = "unpad"]
      ELSE
        LET decrypted == unpad(buffer)
            out_path == DecryptOutPath(filepath)
        IN
        IF out_path \in denied
        THEN [r2 EXCEPT !.exc = "PermissionError", !.stage = "open_out",
                        !.out = out_path]
        ELSE [r2 EXCEPT !.fs = Write(f, out_path, decrypted), !.out = out_path,
                        !.wrote = TRUE]

\* --------------------------------------------------------------- callbacks
\* Button "Encrypt File".  file_path is what filedialog.askopenfilename()
\* returned (<<>> when the dialog was cancelled), key what get_random_bytes(32)
\* returned and iv the IV the cipher drew.  No exception is caught here.
select_file_encrypt(file_path, key, iv) ==
  /\ steps < MaxSteps
  /\ steps' = steps + 1
  /\ UNCHANGED denied
  /\ IF file_path = <<>>
     THEN /\ UNCHANGED <<fs, made, encrypted>>
          /\ last' = [Idle EXCEPT !.op = "encrypt"]
     ELSE
       LET base == [Idle EXCEPT !.op = "encrypt", !.path = file_path, !.key = key]
       IN
       IF KEY_BIN \in denied
       THEN /\ UNCHANGED <<fs, made, encrypted>>
            /\ last' = [base EXCEPT !.exc = "PermissionError", !.stage = "key_file",
                                    !.escaped = TRUE]
       ELSE
         \E r \in {encrypt_file(Write(fs, KEY_BIN, key), file_path, key, iv)} :
         LET m == Forget(made, KEY_BIN)
         IN
         /\ fs' = r.fs
         /\ encrypted' = (encrypted \/ r.exc = "none")
         /\ made' = IF r.wrote
                    THEN Write(m, r.out, [plain |-> r.data, key |-> key])
                    ELSE m
         /\ last' = [base EXCEPT !.exc = r.exc, !.stage = r.stage,
                                 !.escaped = (r.exc # "none"),
                                 !.notes = IF r.exc = "none" THEN <<"info">> ELSE <<>>,
                                 !.data = r.data, !.buf = r.buf, !.out = r.out,
                                 !.wrote = r.wrote]

\* Button "Decrypt File".  Only FileNotFoundError is caught, whichever open()
\* raised it.
select_file_decrypt(file_path) ==
  /\ steps < MaxSteps
  /\ steps' = steps + 1
  /\ UNCHANGED <<denied, encrypted>>
  /\ IF file_path = <<>>
     THEN /\ UNCHANGED <<fs, made>>
          /\ last' = [Idle EXCEPT !.op = "decrypt"]
     ELSE
       LET base == [Idle EXCEPT !.op = "decrypt", !.path = file_path,
                                !.known = (file_path \in DOMAIN made),
                                !.plain = IF file_path \in DOMAIN made
                                          THEN made[file_path].plain ELSE <<>>,
                                !.madeKey = IF file_path \in DOMAIN made
                                            THEN made[file_path].key ELSE <<>>]
       IN
       IF KEY_BIN \notin DOMAIN fs
       THEN /\ UNCHANGED <<fs, made>>
            /\ last' = [base EXCEPT !.exc = "FileNotFoundError", !.stage = "key_file",
                                    !.notes = <<"error">>]
       ELSE IF KEY_BIN \in denied
       THEN /\ UNCHANGED <<fs, made>>
            /\ last' = [base EXCEPT !.exc = "PermissionError", !.stage = "key_file",
                                    !.escaped = TRUE]
       ELSE
         \E r \in {decrypt_file(fs, file_path, fs[KEY_BIN])} :
         LET key == fs[KEY_BIN]
             caught == r.exc = "FileNotFoundError"
         IN
         /\ fs' = r.fs
         /\ made' = IF r.wrote THEN Forget(made, r.out) ELSE made
         /\ last' = [base EXCEPT !.key = key, !.exc = r.exc, !.stage = r.stage,
                                 !.escaped = (r.exc # "none" /\ ~caught),
                                 !.notes = IF r.exc = "none" THEN <<"info">>
                                           ELSE IF caught THEN <<"error">>
                                           ELSE <<>>,
                                 !.data = r.data, !.buf = r.buf, !.out = r.out,
                                 !.wrote = r.wrote]

\* ------------------------------------------------------------ initial states
Plain(n, f) == Bytes([i \in 1..n |-> (f * i) % 256])

KeyOf(n) == Bytes([i \in 1..KEY_SIZE |-> (n * i) % 256])
\* the values get_random_bytes(32) returns here
Keys == {KeyOf(1), KeyOf(2)}

IvOf(n) == Bytes([i \in 1..IV_SIZE |-> (n * 16 + i) % 256])
\* the values the cipher's random IV takes here
IVs == {IvOf(1), IvOf(2)}

Plaintexts == {Plain(n, 1) : n \in 0..MaxLen}

PathA == <<"a">>
PathB == <<"b">>
PathBX == PathB \o ENC \o <<"x">>
PathMissing == <<"z">>

\* the envelope encrypt_file makes of plain under key and iv
Envelope(plain, key, iv) == Ciphertext(key, iv, pad(plain))

File(path, contents) == [q \in {path} |-> contents]
NoFiles == [q \in {} |-> <<>>]

\* a key file of n bytes; the envelope next to it was made under that key when
\* AES takes it, under KeyOf(1) otherwise
KeyFileOf(n) == Bytes([i \in 1..n |-> i % 256])
EnvKeyOf(n) == IF n \in AES_KEY_SIZES THEN KeyFileOf(n) ELSE KeyOf(1)

\* a decrypted buffer of two blocks that ends in byte p
BufferOf(p) == Rep(2 * BLOCK_SIZE - 1, 2) \o <<p>>

\* key file lengths: empty, the three AES key sizes, one less and one more than 32
KeyFileLengths == {0, 16, 24, 31, 32, 33}

\* final bytes of a 32-byte decrypted buffer: zero, valid paddings, a padding
\* the bytes before it do not repeat, more than a block, the whole buffer, more
\* than the buffer
FinalBytes == {0, 1, 2, 15, 16, 17, 31, 32, 33, 255}

\* a fresh directory holding one plaintext
InitFresh ==
  \E plain \in Plaintexts :
    /\ fs = File(PathA, plain)
    /\ denied = {}
    /\ made = NoFiles

\* a key file of any length next to an envelope
InitKeyFile ==
  \E n \in KeyFileLengths :
    /\ fs = Write(File(KEY_BIN, KeyFileOf(n)), PathA \o ENC,
                  Envelope(Plain(5, 1), EnvKeyOf(n), IvOf(1)))
    /\ denied = {}
    /\ made = File(PathA \o ENC, [plain |-> Plain(5, 1), key |-> EnvKeyOf(n)])

\* a key file next to a file of arbitrary bytes
InitArbitrary ==
  \E n \in 0..MaxEnvLen :
    /\ fs = Write(File(KEY_BIN, KeyOf(1)), PathB, Plain(n, 3))
    /\ denied = {}
    /\ made = NoFiles

\* a key file next to an envelope whose decrypted buffer ends in any byte
InitCrafted ==
  \E p \in FinalBytes :
    /\ fs = Write(File(KEY_BIN, KeyOf(1)), PathBX,
                  IvOf(1) \o CBCEncrypt(KeyOf(1), IvOf(1), BufferOf(p)))
    /\ denied = {}
    /\ made = NoFiles

\* a plaintext, its envelope and the key, one path not accessible
InitDenied ==
  \E d \in {PathA, PathA \o ENC, PathA \o DEC, KEY_BIN} :
    /\ fs = Write(Write(File(KEY_BIN, KeyOf(1)), PathA, Plain(5, 1)), PathA \o ENC,
                  Envelope(Plain(5, 1), KeyOf(1), IvOf(1)))
    /\ denied = {d}
    /\ made = File(PathA \o ENC, [plain |-> Plain(5, 1), key |-> KeyOf(1)])

Init ==
  /\ \/ InitCrafted
     \/ InitArbitrary
     \/ InitKeyFile
     \/ InitFresh
     \/ InitDenied
  /\ last = Idle
  /\ encrypted = FALSE
  /\ steps = 0

Selectable == (DOMAIN fs) \cup {PathMissing, <<>>}

ClickEncrypt ==
  \E file_path \in Selectable, key \in Keys, iv \in IVs :
    select_file_encrypt(file_path, key, iv)

ClickDecrypt == \E file_path \in Selectable : select_file_decrypt(file_path)

Next == ClickEncrypt \/ ClickDecrypt

Spec == Init /\ [][Next]_vars

\* -------------------------------------------------------------- properties
\* the callback ran decrypt_file and decrypt_file read the envelope
EnvelopeRead ==
  /\ last.op = "decrypt"
  /\ last.path # <<>>
  /\ last.stage \notin {"none", "key_file", "open_src"}

\* the callback ran encrypt_file and encrypt_file read the source
SourceRead ==
  /\ last.op = "encrypt"
  /\ last.path # <<>>
  /\ last.stage \notin {"none", "key_file", "open_src"}

\* the key file as a later action finds it
KeyFileState ==
  IF KEY_BIN \in DOMAIN fs THEN <<TRUE, fs[KEY_BIN]>> ELSE <<FALSE, <<>>>>

\* C1: decrypt_file, given the 32-byte key K and an envelope that encrypt_file
\* made of plaintext P under K, writes an output file that holds exactly P
\* (whenever its two files can be opened).
C1_RoundTrip ==
  (/\ EnvelopeRead
   /\ last.known
   /\ last.madeKey = last.key
   /\ Len(last.key) = KEY_SIZE
   /\ last.exc # "PermissionError")
  => /\ last.exc = "none"
     /\ last.wrote
     /\ last.out \in DOMAIN fs
     /\ fs[last.out] = last.plain

\* an envelope made by an Encrypt action of this run from a 16-byte plaintext
\* has been decrypted with its key
C1_Witness ==
  /\ EnvelopeRead
  /\ steps = 2
  /\ last.known
  /\ last.madeKey = last.key
  /\ Len(last.plain) = BLOCK_SIZE
  /\ last.wrote
  /\ fs[last.out] = last.plain

\* C2: once a successful Encrypt action has written key.bin, no later Encrypt
\* or Decrypt action changes the contents of key.bin.
C2_KeyWrittenOnce == [][encrypted => KeyFileState' = KeyFileState]_vars

\* C3: decrypt_file fails and writes no output file whenever the final byte p
\* of the decrypted buffer is not in 1..16 or the last p bytes are not all p;
\* otherwise exactly those p bytes are removed.
C3_PaddingValidated ==
  (EnvelopeRead /\ Len(last.buf) > 0) =>
    LET n == Len(last.buf)
        p == last.buf[n]
        valid == /\ p \in 1..BLOCK_SIZE
                 /\ p <= n
                 /\ \A i \in (n - p + 1)..n : last.buf[i] = p
    IN  /\ ~valid => (last.exc # "none" /\ ~last.wrote)
        /\ (valid /\ last.wrote) => fs[last.out] = SubSeq(last.buf, 1, n - p)

\* C4: a Decrypt action that loads a key file of any length other than 32 bytes
\* fails and writes no decrypted output.
C4_KeyLengthValidated ==
  (/\ last.op = "decrypt"
   /\ last.path # <<>>
   /\ last.stage \notin {"none", "key_file"}
   /\ Len(last.key) # KEY_SIZE)
  => (last.exc # "none" /\ ~last.wrote)

\* C5: decrypt_file rejects every envelope shorter than 16 bytes and every
\* envelope whose remainder after the first 16 bytes is not a multiple of 16
\* bytes long, before anything is decrypted or unpadded and without writing an
\* output file.
C5_EnvelopeLengthValidated ==
  (/\ EnvelopeRead
   /\ \/ Len(last.data) < IV_SIZE
      \/ (Len(last.data) - IV_SIZE) % BLOCK_SIZE # 0)
  => /\ last.exc = "ValueError"
     /\ last.stage \in {"new_cipher", "cipher"}
     /\ last.buf = <<>>
     /\ last.out = <<>>
     /\ ~last.wrote

\* a Decrypt action has read, under a 32-byte key, an envelope of an IV, one
\* block and one more byte, and the cipher has rejected it
C5_Witness ==
  /\ EnvelopeRead
  /\ Len(last.data) = 2 * BLOCK_SIZE + 1
  /\ Len(last.key) = KEY_SIZE
  /\ last.stage = "cipher"

\* the output path the specification derives: the suffix .enc replaced by .dec
\* when present, .dec appended otherwise
SuffixReplaced(filepath) ==
  IF Len(filepath) >= Len(ENC)
     /\ SubSeq(filepath, Len(filepath) - Len(ENC) + 1, Len(filepath)) = ENC
  THEN SubSeq(filepath, 1, Len(filepath) - Len(ENC)) \o DEC
  ELSE filepath \o DEC

\* C6: decrypt_file writes to the input path with its suffix .enc replaced by
\* .dec, or with .dec appended when there is no such suffix; the output path
\* always differs from the input path.
C6_DecryptOutPath ==
  (EnvelopeRead /\ last.wrote) =>
    /\ last.out = SuffixReplaced(last.path)
    /\ last.out # last.path

\* C7: every Encrypt or Decrypt action for which a path was selected ends with
\* exactly one notification, and no exception escapes the callback.
C7_OneOutcome ==
  (last.op \in {"encrypt", "decrypt"} /\ last.path # <<>>) =>
    (Len(last.notes) = 1 /\ ~last.escaped)

\* C8: pad(P) is P followed by p bytes each equal to p, with
\* p = 16 - (len(P) mod 16), so 1 <= p <= 16, p = 16 when len(P) mod 16 = 0, and
\* len(pad(P)) is a positive multiple of 16.
C8_PadCorrect ==
  SourceRead =>
    LET n == Len(last.data)
        p == Len(last.buf) - n
    IN  /\ p \in 1..16
        /\ p + (n % 16) = 16
        /\ (n % 16 = 0) => (p = 16)
        /\ SubSeq(last.buf, 1, n) = last.data
        /\ \A i \in (n + 1)..(n + p) : last.buf[i] = p
        /\ Len(last.buf) > 0
        /\ Len(last.buf) % 16 = 0

\* an Encrypt action has padded a 16-byte source with a full block
C8_Witness ==
  /\ SourceRead
  /\ Len(last.data) = 16
  /\ Len(last.buf) = 32

\* C9: every file encrypt_file writes is a 16-byte IV followed by the
\* ciphertext of the padded plaintext; for a source of n bytes it is
\* 16 + 16 * (n div 16 + 1) bytes long, so at least 32, with
\* (length - 16) mod 16 = 0; 5 bytes give 32 and 16 bytes give 48.
C9_EnvelopeShape ==
  (SourceRead /\ last.wrote) =>
    LET env == fs[last.out]
        n == Len(last.data)
    IN  /\ Len(env) = 16 + 16 * ((n \div 16) + 1)
        /\ Len(env) >= 32
        /\ (Len(env) - 16) % 16 = 0
        /\ (n = 5) => (Len(env) = 32)
        /\ (n = 16) => (Len(env) = 48)
        /\ Take(env, 16) \in IVs
        /\ Drop(env, 16) = CBCEncrypt(last.key, Take(env, 16), last.buf)

\* an Encrypt action has written the envelope of a 16-byte source
C9_Witness ==
  /\ SourceRead
  /\ last.wrote
  /\ Len(last.data) = 16
  /\ Len(fs[last.out]) = 48

\* C10: an Encrypt action that fails because the source cannot be read or the
\* envelope cannot be written leaves key.bin as it was.
C10_FailedEncryptKeepsKey ==
  [][(/\ last'.op = "encrypt"
      /\ last'.exc # "none"
      /\ last'.stage \in {"open_src", "open_out"})
     => KeyFileState' = KeyFileState]_vars

====
